---- MODULE Spec2Model ----
(***************************************************************************)
(* Model of scrape_news.py: two source adapters (OCC, Federal Reserve),    *)
(* the novelty filter get_new_links, the history store links.csv           *)
(* (write_to_csv / load_existing_links), the notifier send_email and the   *)
(* orchestrator main with the __main__ block that calls it.                *)
(*                                                                         *)
(* The history file is modelled at the granularity of csv rows: a present  *)
(* file is the sequence of its rows, each row the sequence of its fields.  *)
(* Strings are TLA+ strings; a URL is built as the code builds it, by      *)
(* concatenating the adapter's BASE_URL and the anchor's href.              *)
(***************************************************************************)
EXTENDS Naturals, Sequences, FiniteSets, TLC

\* ------------------------------------------------------------------ bounds
MaxItems == 2   \* longest headline list a page serves
MaxHist  == 1   \* most data rows in the history file before the first run

\* ------------------------------------------------------- program constants
OCC_BASE_URL == "https://www.occ.gov"
FED_BASE_URL == "https://www.federalreserve.gov"
OCC_NAME     == "OCC"
FED_NAME     == "Federal Reserve"
HEADER       == <<"Title", "Link", "Source">>

\* ------------------------------------------------------ environment values
\* anchor texts as served (one with surrounding blanks) and anchor hrefs
Anchors == {<<" Rule X ", "/1">>, <<"Rule Y", "/2">>}

SeqsUpTo(S, n) == UNION {[1..k -> S] : k \in 0..n}

Pages == SeqsUpTo(Anchors, MaxItems)

\* str.strip() on the anchor texts the pages serve
strip(text) == IF text = " Rule X " THEN "Rule X" ELSE text

\* ---------------------------------------------------------------- adapters
\* [(card.text.strip(), self.BASE_URL + card['href']) for card in cards]
OccGovScraper_scrape(page) ==
    [i \in 1..Len(page) |-> <<strip(page[i][1]), OCC_BASE_URL \o page[i][2]>>]

\* [(item.text.strip(), self.BASE_URL + item['href']) for item in news_items]
FederalReserveScraper_scrape(page) ==
    [i \in 1..Len(page) |-> <<strip(page[i][1]), FED_BASE_URL \o page[i][2]>>]

\* ----------------------------------------------------------- history store
\* rows the program itself can have written in earlier runs
HistRows ==
    {<<strip(a[1]), OCC_BASE_URL \o a[2], OCC_NAME>> : a \in Anchors}
    \cup {<<strip(a[1]), FED_BASE_URL \o a[2], FED_NAME>> : a \in Anchors}

\* mutant: the file is opened with 'w', so earlier content is truncated
write_to_csv_truncating(rows, links, source) ==
    [i \in 1..Len(links) |-> <<links[i][1], links[i][2], source>>]

\* mutant: the last link of the batch is not written
write_to_csv_dropping_last(rows, links, source) ==
    rows \o [i \in 1..(Len(links) - 1) |-> <<links[i][1], links[i][2], source>>]

\* open(filename, 'a'); writer.writerow([title, link, source]) for each link
write_to_csv(rows, links, source) ==
    rows \o [i \in 1..Len(links) |-> <<links[i][1], links[i][2], source>>]

\* mutant: the link is taken from the first column (the title)
load_existing_links_first_column(rows) ==
    {rows[i][1] : i \in 2..Len(rows)}

\* next(reader) skips the header; existing_links.add(row[1]) for the rest
load_existing_links(rows) ==
    {rows[i][2] : i \in 2..Len(rows)}

\* ----------------------------------------------------------- novelty filter
\* mutant: only the first occurrence of a link is kept
RECURSIVE get_new_links_dedup(_, _)
get_new_links_dedup(existing, scraped) ==
    IF scraped = <<>> THEN <<>>
    ELSE IF Head(scraped)[2] \notin existing
         THEN <<Head(scraped)>>
              \o get_new_links_dedup(existing \cup {Head(scraped)[2]}, Tail(scraped))
         ELSE get_new_links_dedup(existing, Tail(scraped))

\* [(title, link) for title, link in scraped_links if link not in existing_links]
RECURSIVE get_new_links(_, _)
get_new_links(existing, scraped) ==
    IF scraped = <<>> THEN <<>>
    ELSE IF Head(scraped)[2] \notin existing
         THEN <<Head(scraped)>> \o get_new_links(existing, Tail(scraped))
         ELSE get_new_links(existing, Tail(scraped))

\* ----------------------------------------------------------------- notifier
SmtpOutcomes == {"sent", "connect_error", "tls_error", "auth_error", "delivery_error"}

\* mutant: the handler re-raises after logging
send_email_reraising(smtp) ==
    [raised |-> smtp # "sent", logged |-> smtp # "sent"]

\* try: SMTP(...) starttls login send_message; except Exception: logging.error
send_email(smtp) ==
    [raised |-> FALSE, logged |-> smtp # "sent"]

\* ------------------------------------------------------------- orchestrator
\* mutant: the new batch replaces the accumulated list
extend_replacing(list, more) == more

\* new_links.extend(more)
extend(list, more) == list \o more

\* mutant: send_email is called whatever main returned
main_guard_always(found) == TRUE

\* if new_links_found:
main_guard(found) == found # <<>>

VARIABLES
    csv_exists,       \* os.path.exists('links.csv')
    links_csv,        \* rows of links.csv when it exists
    pages,            \* headline anchors each site serves, [occ, fed]
    pc,               \* position of the process in main / __main__
    existing_links,   \* main: existing_links
    occ_links,        \* main: occ_links
    new_occ_links,    \* main: new_occ_links
    fed_links,        \* main: fed_links
    new_fed_links,    \* main: new_fed_links
    new_links,        \* main: new_links
    new_links_found,  \* __main__: new_links_found
    notified,         \* arguments of the send_email calls of this run, in order
    smtp_result,      \* what the SMTP exchange of send_email did, "none" before it
    error_logged,     \* logging.error was called in this run
    status,           \* "running", "ok" (exit 0) or "error" (uncaught exception)
    error,            \* the uncaught exception, "none" if there is none
    failed_fetch,     \* adapter whose scrape raised in this run, "none" if none
    rerun,            \* FALSE in an invocation, TRUE in the one that follows it
    exists0,          \* csv_exists when this run started
    file0,            \* links_csv when this run started
    csv_at_send,      \* links_csv when send_email was entered
    prev              \* previous invocation: [ok, occ, fed]

vars == <<csv_exists, links_csv, pages, pc, existing_links, occ_links,
          new_occ_links, fed_links, new_fed_links, new_links, new_links_found,
          notified, smtp_result, error_logged, status, error, failed_fetch,
          rerun,
          exists0, file0, csv_at_send, prev>>

env_vars   == <<pages, rerun, exists0, file0, prev>>
local_vars == <<existing_links, occ_links, new_occ_links, fed_links,
                new_fed_links, new_links, new_links_found>>
mail_vars  == <<notified, smtp_result, error_logged, csv_at_send>>

InitFiles ==
    {[exists |-> FALSE, rows |-> <<>>]}
    \cup {[exists |-> TRUE, rows |-> <<HEADER>> \o h] : h \in SeqsUpTo(HistRows, MaxHist)}

Init ==
    /\ \E f \in InitFiles :
          /\ csv_exists = f.exists
          /\ links_csv = f.rows
          /\ exists0 = f.exists
          /\ file0 = f.rows
    /\ pages \in [occ : Pages, fed : Pages]
    /\ pc = "load"
    /\ existing_links = {}
    /\ occ_links = <<>>
    /\ new_occ_links = <<>>
    /\ fed_links = <<>>
    /\ new_fed_links = <<>>
    /\ new_links = <<>>
    /\ new_links_found = <<>>
    /\ notified = <<>>
    /\ smtp_result = "none"
    /\ error_logged = FALSE
    /\ status = "running"
    /\ error = "none"
    /\ failed_fetch = "none"
    /\ rerun = FALSE
    /\ csv_at_send = <<>>
    /\ prev = [ok |-> FALSE, occ |-> <<>>, fed |-> <<>>]

\* an uncaught exception ends the process with a traceback
Raise(exc) ==
    /\ pc' = "exit"
    /\ status' = "error"
    /\ error' = exc

\* line 137: existing_links = load_existing_links(); new_links = []
LoadOk ==
    /\ pc = "load"
    /\ csv_exists
    /\ Len(links_csv) >= 1
    /\ existing_links' = load_existing_links(links_csv)
    /\ new_links' = <<>>
    /\ pc' = "ensure"
    /\ UNCHANGED <<csv_exists, links_csv, occ_links, new_occ_links, fed_links,
                   new_fed_links, new_links_found, status, error, failed_fetch>>
    /\ UNCHANGED env_vars
    /\ UNCHANGED mail_vars

\* line 83: open('links.csv', 'r') raises FileNotFoundError on a missing file;
\* line 85: next(reader) raises StopIteration on a file without a header row
LoadFail ==
    /\ pc = "load"
    /\ ~csv_exists \/ Len(links_csv) = 0
    /\ Raise(IF csv_exists THEN "StopIteration" ELSE "FileNotFoundError")
    /\ UNCHANGED <<csv_exists, links_csv, failed_fetch>>
    /\ UNCHANGED local_vars
    /\ UNCHANGED env_vars
    /\ UNCHANGED mail_vars

\* lines 141-144: if not os.path.exists('links.csv'): write the header row
EnsureCsv ==
    /\ pc = "ensure"
    /\ IF ~csv_exists
       THEN csv_exists' = TRUE /\ links_csv' = <<HEADER>>
       ELSE UNCHANGED <<csv_exists, links_csv>>
    /\ pc' = "scrape_occ"
    /\ UNCHANGED <<status, error, failed_fetch>>
    /\ UNCHANGED local_vars
    /\ UNCHANGED env_vars
    /\ UNCHANGED mail_vars

\* lines 146-147: occ_links = scraper.execute_scrape()
ScrapeOccOk ==
    /\ pc = "scrape_occ"
    /\ occ_links' = OccGovScraper_scrape(pages.occ)
    /\ pc' = "filter_occ"
    /\ UNCHANGED <<csv_exists, links_csv, existing_links, new_occ_links, fed_links,
                   new_fed_links, new_links, new_links_found, status, error,
                   failed_fetch>>
    /\ UNCHANGED env_vars
    /\ UNCHANGED mail_vars

\* requests.get raises, or an anchor has no href: nothing in main catches it
ScrapeOccFail ==
    /\ pc = "scrape_occ"
    /\ failed_fetch' = OCC_NAME
    /\ Raise("FetchError")
    /\ UNCHANGED <<csv_exists, links_csv>>
    /\ UNCHANGED local_vars
    /\ UNCHANGED env_vars
    /\ UNCHANGED mail_vars

\* line 148: new_occ_links = get_new_links(existing_links, occ_links)
FilterOcc ==
    /\ pc = "filter_occ"
    /\ new_occ_links' = get_new_links(existing_links, occ_links)
    /\ pc' = "write_occ"
    /\ UNCHANGED <<csv_exists, links_csv, existing_links, occ_links, fed_links,
                   new_fed_links, new_links, new_links_found, status, error,
                   failed_fetch>>
    /\ UNCHANGED env_vars
    /\ UNCHANGED mail_vars

\* mutant: the known links are reloaded after the OCC rows are written
WriteOccOk_refreshing ==
    /\ pc = "write_occ"
    /\ IF new_occ_links # <<>>
       THEN links_csv' = write_to_csv(links_csv, new_occ_links, OCC_NAME)
       ELSE UNCHANGED links_csv
    /\ existing_links' = load_existing_links(links_csv')
    /\ new_links' = extend(new_links, new_occ_links)
    /\ pc' = "scrape_fed"
    /\ UNCHANGED <<csv_exists, occ_links, new_occ_links, fed_links,
                   new_fed_links, new_links_found, status, error, failed_fetch>>
    /\ UNCHANGED env_vars
    /\ UNCHANGED mail_vars

\* lines 149-157: if new_occ_links: write_to_csv(new_occ_links, "OCC");
\* new_links.extend(new_occ_links)
WriteOccOk ==
    /\ pc = "write_occ"
    /\ IF new_occ_links # <<>>
       THEN links_csv' = write_to_csv(links_csv, new_occ_links, OCC_NAME)
       ELSE UNCHANGED links_csv
    /\ new_links' = extend(new_links, new_occ_links)
    /\ pc' = "scrape_fed"
    /\ UNCHANGED <<csv_exists, existing_links, occ_links, new_occ_links, fed_links,
                   new_fed_links, new_links_found, status, error, failed_fetch>>
    /\ UNCHANGED env_vars
    /\ UNCHANGED mail_vars

\* write_to_csv raises an OSError after k of the rows reached the file
WriteOccFail ==
    /\ pc = "write_occ"
    /\ new_occ_links # <<>>
    /\ \E k \in 0..(Len(new_occ_links) - 1) :
          links_csv' = write_to_csv(links_csv, SubSeq(new_occ_links, 1, k), OCC_NAME)
    /\ Raise("OSError")
    /\ UNCHANGED <<csv_exists, failed_fetch>>
    /\ UNCHANGED local_vars
    /\ UNCHANGED env_vars
    /\ UNCHANGED mail_vars

\* lines 161-162: scraper.set_strategy(FederalReserveScraper()); execute_scrape()
ScrapeFedOk ==
    /\ pc = "scrape_fed"
    /\ fed_links' = FederalReserveScraper_scrape(pages.fed)
    /\ pc' = "filter_fed"
    /\ UNCHANGED <<csv_exists, links_csv, existing_links, occ_links, new_occ_links,
                   new_fed_links, new_links, new_links_found, status, error,
                   failed_fetch>>
    /\ UNCHANGED env_vars
    /\ UNCHANGED mail_vars

ScrapeFedFail ==
    /\ pc = "scrape_fed"
    /\ failed_fetch' = FED_NAME
    /\ Raise("FetchError")
    /\ UNCHANGED <<csv_exists, links_csv>>
    /\ UNCHANGED local_vars
    /\ UNCHANGED env_vars
    /\ UNCHANGED mail_vars

\* line 163: new_fed_links = get_new_links(existing_links, fed_links)
FilterFed ==
    /\ pc = "filter_fed"
    /\ new_fed_links' = get_new_links(existing_links, fed_links)
    /\ pc' = "write_fed"
    /\ UNCHANGED <<csv_exists, links_csv, existing_links, occ_links, new_occ_links,
                   fed_links, new_links, new_links_found, status, error,
                   failed_fetch>>
    /\ UNCHANGED env_vars
    /\ UNCHANGED mail_vars

\* lines 164-174, 178: if new_fed_links: write_to_csv(new_fed_links,
\* "Federal Reserve"); new_links.extend(new_fed_links); return new_links
WriteFedOk ==
    /\ pc = "write_fed"
    /\ IF new_fed_links # <<>>
       THEN links_csv' = write_to_csv(links_csv, new_fed_links, FED_NAME)
       ELSE UNCHANGED links_csv
    /\ new_links' = extend(new_links, new_fed_links)
    /\ new_links_found' = new_links'
    /\ pc' = "returned"
    /\ UNCHANGED <<csv_exists, existing_links, occ_links, new_occ_links, fed_links,
                   new_fed_links, status, error, failed_fetch>>
    /\ UNCHANGED env_vars
    /\ UNCHANGED mail_vars

WriteFedFail ==
    /\ pc = "write_fed"
    /\ new_fed_links # <<>>
    /\ \E k \in 0..(Len(new_fed_links) - 1) :
          links_csv' = write_to_csv(links_csv, SubSeq(new_fed_links, 1, k), FED_NAME)
    /\ Raise("OSError")
    /\ UNCHANGED <<csv_exists, failed_fetch>>
    /\ UNCHANGED local_vars
    /\ UNCHANGED env_vars
    /\ UNCHANGED mail_vars

\* lines 180-181: if new_links_found: send_email(new_links_found)
SendEmail ==
    /\ pc = "returned"
    /\ main_guard(new_links_found)
    /\ \E smtp \in SmtpOutcomes :
          LET r == send_email(smtp) IN
          /\ notified' = Append(notified, new_links_found)
          /\ csv_at_send' = links_csv
          /\ smtp_result' = smtp
          /\ error_logged' = r.logged
          /\ pc' = "exit"
          /\ status' = IF r.raised THEN "error" ELSE "ok"
          /\ error' = IF r.raised THEN "SMTPException" ELSE "none"
    /\ UNCHANGED <<csv_exists, links_csv, failed_fetch>>
    /\ UNCHANGED local_vars
    /\ UNCHANGED env_vars

\* line 180 with an empty list: the process ends without calling send_email
SkipEmail ==
    /\ pc = "returned"
    /\ ~main_guard(new_links_found)
    /\ pc' = "exit"
    /\ status' = "ok"
    /\ UNCHANGED <<csv_exists, links_csv, error, failed_fetch>>
    /\ UNCHANGED local_vars
    /\ UNCHANGED env_vars
    /\ UNCHANGED mail_vars

\* a site publishes one more headline at the top of its list
Publish(page, a) ==
    IF Len(page) < MaxItems THEN <<a>> \o page
    ELSE SubSeq(<<a>> \o page, 1, MaxItems)

NextPages ==
    {pages}
    \cup {[pages EXCEPT !.occ = Publish(pages.occ, a)] : a \in Anchors}
    \cup {[pages EXCEPT !.fed = Publish(pages.fed, a)] : a \in Anchors}

\* the external scheduler invokes the script again; the sites may have changed
StartRun ==
    /\ pc = "exit"
    /\ ~rerun
    /\ rerun' = TRUE
    /\ pages' \in NextPages
    /\ prev' = [ok |-> status = "ok", occ |-> occ_links, fed |-> fed_links]
    /\ exists0' = csv_exists
    /\ file0' = links_csv
    /\ pc' = "load"
    /\ existing_links' = {}
    /\ occ_links' = <<>>
    /\ new_occ_links' = <<>>
    /\ fed_links' = <<>>
    /\ new_fed_links' = <<>>
    /\ new_links' = <<>>
    /\ new_links_found' = <<>>
    /\ notified' = <<>>
    /\ csv_at_send' = <<>>
    /\ smtp_result' = "none"
    /\ error_logged' = FALSE
    /\ status' = "running"
    /\ error' = "none"
    /\ failed_fetch' = "none"
    /\ UNCHANGED <<csv_exists, links_csv>>

Next ==
    \/ LoadOk
    \/ LoadFail
    \/ EnsureCsv
    \/ ScrapeOccOk
    \/ ScrapeOccFail
    \/ FilterOcc
    \/ WriteOccOk
    \/ WriteOccFail
    \/ ScrapeFedOk
    \/ ScrapeFedFail
    \/ FilterFed
    \/ WriteFedOk
    \/ WriteFedFail
    \/ SendEmail
    \/ SkipEmail
    \/ StartRun

Spec == Init /\ [][Next]_vars

TypeOK ==
    /\ csv_exists \in BOOLEAN
    /\ pc \in {"load", "ensure", "scrape_occ", "filter_occ", "write_occ",
               "scrape_fed", "filter_fed", "write_fed", "returned", "exit"}
    /\ status \in {"running", "ok", "error"}
    /\ rerun \in BOOLEAN
    /\ smtp_result \in SmtpOutcomes \cup {"none"}

\* ------------------------------------------------------------------ helpers
Range(s) == {s[i] : i \in DOMAIN s}

Count(x, s) == Cardinality({i \in DOMAIN s : s[i] = x})

IsPrefix(s, t) == Len(s) <= Len(t) /\ SubSeq(t, 1, Len(s)) = s

\* s can be obtained from t by deleting elements
RECURSIVE IsSubseq(_, _)
IsSubseq(s, t) ==
    IF s = <<>> THEN TRUE
    ELSE IF t = <<>> THEN FALSE
    ELSE IF Head(s) = Head(t) THEN IsSubseq(Tail(s), Tail(t))
    ELSE IsSubseq(s, Tail(t))

\* the rows that reached the file since this run started
Appended == SubSeq(links_csv, Len(file0) + 1, Len(links_csv))

\* the (title, link) pairs of a sequence of rows
Pairs(rows) == [i \in 1..Len(rows) |-> <<rows[i][1], rows[i][2]>>]

\* the links in the data rows of the file as it was when this run started
KnownAtStart == {file0[i][2] : i \in 2..Len(file0)}

Unknown(item) == item[2] \notin KnownAtStart

AfterFilterOcc == pc \in {"write_occ", "scrape_fed", "filter_fed", "write_fed", "returned"}
AfterFilterFed == pc \in {"write_fed", "returned"}
Completed == pc = "exit" /\ status = "ok"

\* ------------------------------------------------------------------- claims

\* R is the subsequence of I whose link is not in K: nothing in K, every
\* other item as often as in I, in the order of I
IsFiltered(K, I, R) ==
    /\ \A i \in DOMAIN R : R[i][2] \notin K
    /\ \A x \in Range(I) : x[2] \notin K => Count(x, R) = Count(x, I)
    /\ IsSubseq(R, I)

\* C1: get_new_links(K, I) returns exactly the subsequence of I whose url is
\* not in K: no item with url in K, every item with url not in K as many times
\* as it occurs in I, in the relative order of I.
C1_SetDifference ==
    /\ AfterFilterOcc => IsFiltered(existing_links, occ_links, new_occ_links)
    /\ AfterFilterFed => IsFiltered(existing_links, fed_links, new_fed_links)

\* a two-item page of which one link is known and the other is kept
C1_Witness ==
    /\ pc = "write_occ"
    /\ Len(occ_links) = 2
    /\ occ_links[1][2] \in existing_links
    /\ new_occ_links = <<occ_links[2]>>

\* C2: a run that completes right after a completed run, with both sources
\* returning the same sequences as in that run, finds no new item for either
\* source, appends no row and does not call send_email.
C2_Idempotence ==
    (rerun /\ prev.ok /\ Completed /\ occ_links = prev.occ /\ fed_links = prev.fed)
        => /\ new_occ_links = <<>>
           /\ new_fed_links = <<>>
           /\ links_csv = file0
           /\ notified = <<>>

\* the second of two such runs, on a page that lists one link twice, both
\* rows of which the first run appended
C2_Witness ==
    /\ rerun /\ prev.ok /\ Completed
    /\ occ_links = prev.occ /\ fed_links = prev.fed
    /\ Len(occ_links) = 2 /\ occ_links[1] = occ_links[2]
    /\ fed_links # <<>>
    /\ Count(<<occ_links[1][1], occ_links[1][2], OCC_NAME>>, file0) >= 2

\* C3: in every state of a run, aborted runs included, the content the
\* history file had when the run started is an unchanged prefix of its
\* current content.
C3_AppendOnly ==
    exists0 => csv_exists /\ IsPrefix(file0, links_csv)

\* a run that aborted in write_to_csv after part of the batch reached a file
\* that already held a data row
C3_Witness ==
    /\ pc = "exit" /\ error = "OSError"
    /\ Len(file0) >= 2
    /\ Len(links_csv) > Len(file0)

NoNewItems ==
    /\ \A i \in DOMAIN occ_links : occ_links[i][2] \in KnownAtStart
    /\ \A i \in DOMAIN fed_links : fed_links[i][2] \in KnownAtStart

\* C4: in a run in which neither source yields an item whose url is absent
\* from the loaded history, send_email is never invoked.
C4_NoNotifyOnEmpty ==
    NoNewItems => notified = <<>>

\* a completed run in which both pages listed items, all of them known
C4_Witness ==
    /\ Completed
    /\ occ_links # <<>> /\ fed_links # <<>>
    /\ NoNewItems
    /\ notified = <<>>

\* the new items of the source whose fetch did not fail
SurvivingNew ==
    IF failed_fetch = OCC_NAME
    THEN SelectSeq(FederalReserveScraper_scrape(pages.fed), Unknown)
    ELSE SelectSeq(OccGovScraper_scrape(pages.occ), Unknown)

\* C5: when the fetch of one source fails the process is not aborted, and the
\* other source's new items are appended to the history and notified.
C5_Isolation ==
    (pc = "exit" /\ failed_fetch # "none")
        => /\ status = "ok"
           /\ Pairs(Appended) = SurvivingNew
           /\ (SurvivingNew # <<>> => notified = <<SurvivingNew>>)

\* C6: a run that starts without a history file creates it with the header
\* row, loads the empty set, appends every scraped item after the header and
\* does not fail.
C6_MissingStore ==
    (~exists0 /\ pc = "exit")
        => /\ status = "ok"
           /\ csv_exists
           /\ links_csv = <<HEADER>> \o Appended
           /\ Pairs(Appended) = occ_links \o fed_links

\* C7: when the SMTP exchange fails, send_email logs the error and returns;
\* the run ends with success status and the history file is as it was when
\* send_email was called, the rows appended in this run included.
C7_NotifyFailureNonFatal ==
    (notified # <<>> /\ smtp_result # "sent")
        => /\ pc = "exit"
           /\ status = "ok"
           /\ error = "none"
           /\ error_logged
           /\ csv_exists
           /\ links_csv = csv_at_send
           /\ Pairs(Appended) = notified[1]

\* a run that appended rows and then failed to authenticate
C7_Witness ==
    /\ pc = "exit"
    /\ smtp_result = "auth_error"
    /\ notified # <<>>
    /\ Len(links_csv) > Len(file0)

\* the new OCC items in scrape order, then the new Federal Reserve items
Combined == SelectSeq(occ_links, Unknown) \o SelectSeq(fed_links, Unknown)

\* C8: send_email is invoked only after both sources have been processed, at
\* most once, and in a completed run with a non-empty combined list exactly
\* once with that list: the new OCC items followed by the new Federal Reserve
\* items, each in scrape order.
C8_SingleCombinedNotification ==
    /\ Len(notified) <= 1
    /\ notified # <<>> => Completed
    /\ (Completed /\ Combined # <<>>) => notified = <<Combined>>

\* the scenario of the specification: header-only history, the first source
\* returns one item, the second none
C8_Witness ==
    /\ Completed
    /\ file0 = <<HEADER>>
    /\ occ_links = <<<<"Rule X", "https://www.occ.gov/1">>>>
    /\ fed_links = <<>>
    /\ notified = <<occ_links>>

\* a row appended in this run carries the name of the adapter that scraped it
TaggedBySource(row) ==
    \/ row[3] = OCC_NAME /\ <<row[1], row[2]>> \in Range(occ_links)
    \/ row[3] = FED_NAME /\ <<row[1], row[2]>> \in Range(fed_links)

\* C9: when send_email is invoked, the rows appended to the history earlier in
\* the run are, in file order, exactly the items of its argument, each tagged
\* with the source name of its adapter; and in a run that completes the
\* appended rows are exactly the notified list.
C9_RecordedBeforeNotified ==
    /\ notified # <<>>
        => /\ IsPrefix(file0, csv_at_send)
           /\ Pairs(SubSeq(csv_at_send, Len(file0) + 1, Len(csv_at_send))) = notified[1]
           /\ \A i \in DOMAIN Appended : TaggedBySource(Appended[i])
           /\ \A i \in DOMAIN Appended :
                 Appended[i][3] = (IF i <= Len(new_occ_links) THEN OCC_NAME ELSE FED_NAME)
    /\ Completed
        => Pairs(Appended) = (IF notified = <<>> THEN <<>> ELSE notified[1])

\* a notification that carries items of both sources
C9_Witness ==
    /\ notified # <<>>
    /\ new_occ_links # <<>>
    /\ new_fed_links # <<>>
    /\ Len(Appended) = Len(new_occ_links) + Len(new_fed_links)

\* BASE_URL + href never gives the same link for the two adapters
NoSharedUrl ==
    \A i \in DOMAIN occ_links : \A j \in DOMAIN fed_links :
        occ_links[i][2] # fed_links[j][2]

\* C10: the known links are loaded once, before any source is processed, and
\* are not refreshed after the first source's append: both sources are
\* filtered against the links of the file as it was at the start of the run.
\* A link new to both sources would get one row per source and appear twice in
\* the notification.
C10_SingleSnapshot ==
    /\ (pc \notin {"load", "exit"} \/ Completed) => existing_links = KnownAtStart
    /\ (AfterFilterFed \/ Completed)
          => new_fed_links = SelectSeq(fed_links, Unknown)
    /\ Completed
          => \A i \in DOMAIN occ_links : \A j \in DOMAIN fed_links :
                (occ_links[i][2] = fed_links[j][2] /\ Unknown(occ_links[i]))
                    => /\ \E r \in Range(Appended) :
                              r[2] = occ_links[i][2] /\ r[3] = OCC_NAME
                       /\ \E r \in Range(Appended) :
                              r[2] = occ_links[i][2] /\ r[3] = FED_NAME
                       /\ Cardinality({k \in DOMAIN notified[1] :
                              notified[1][k][2] = occ_links[i][2]}) >= 2

\* the second source is filtered after the first source's rows reached the
\* file, against the links loaded before they did
C10_Witness ==
    /\ pc = "write_fed"
    /\ new_occ_links # <<>>
    /\ Len(links_csv) > Len(file0)
    /\ new_fed_links # <<>>
    /\ existing_links # load_existing_links(links_csv)
====
